---- MODULE Spec2Model ----
(***************************************************************************)
(* Incremental Insights (src/js/app.js): the normalization and             *)
(* opportunity-analysis engine as a state machine.                         *)
(*                                                                         *)
(* JavaScript values are tagged records [t, v]:                            *)
(*   t = "num"   v = the number in hundredths (12000 is 120, 98 is 0.98)   *)
(*   t = "nan"   the number NaN                                            *)
(*   t = "str"   v = the string                                            *)
(*   t = "undef" undefined (a property that was never assigned)            *)
(* Numbers are fixed-point with two decimals; digits beyond the second     *)
(* decimal are cut.  Strings are over printable ASCII.                     *)
(***************************************************************************)
EXTENDS Integers, Sequences, FiniteSets, TLC

VARIABLES
    rawData,          \* AppState.rawData: sequence of normalized records
    processedData,    \* AppState.processedData: sequence of _id (the records are shared with rawData)
    fieldMap,         \* AppState.fieldMap: canonical key -> header ("" when the key is absent)
    sortConfig,       \* AppState.sortConfig: [key, direction]
    meta,             \* AppState.meta: [totalOpportunity, qualifyingCount]
    ui,               \* the values of the filter/threshold/view controls
    tableRows,        \* what the last render put in the table body
    emailOutput,      \* UI.emailOutput.value
    screen,           \* which section is shown: "upload", "dashboard" or "help"
    alerted           \* the alert of the last reader.onload: "", "empty" or "error"

vars == <<rawData, processedData, fieldMap, sortConfig, meta, ui, tableRows,
          emailOutput, screen, alerted>>

----------------------------------------------------------------------------
(* JavaScript values *)

Num(n) == [t |-> "num", v |-> n]
NaN == [t |-> "nan", v |-> 0]
Str(s) == [t |-> "str", v |-> s]
Undef == [t |-> "undef", v |-> 0]

IsNum(x) == x.t = "num"
IsStr(x) == x.t = "str"

\* An integer as a number of the model.
OfInt(n) == Num(n * 100)

----------------------------------------------------------------------------
(* Strings *)

\* Printable ASCII without the grave accent (code 96): codes 32..95 and 97..126.
AsciiLow == " !\"#$%&'()*+,-./0123456789:;<=>?@ABCDEFGHIJKLMNOPQRSTUVWXYZ[\\]^_"
AsciiHigh == "abcdefghijklmnopqrstuvwxyz{|}~"

CharAt(s, i) == SubSeq(s, i, i)

\* The UTF-16 code unit of each character.
CodeTable ==
    [c \in {CharAt(AsciiLow, i) : i \in 1..Len(AsciiLow)}
           \cup {CharAt(AsciiHigh, i) : i \in 1..Len(AsciiHigh)} |->
        IF \E i \in 1..Len(AsciiLow) : CharAt(AsciiLow, i) = c
        THEN 31 + (CHOOSE i \in 1..Len(AsciiLow) : CharAt(AsciiLow, i) = c)
        ELSE 96 + (CHOOSE i \in 1..Len(AsciiHigh) : CharAt(AsciiHigh, i) = c)]

CharCode(c) == CodeTable[c]

IsUpper(c) == CharCode(c) >= 65 /\ CharCode(c) <= 90
IsDigit(c) == CharCode(c) >= 48 /\ CharCode(c) <= 57
IsSpace(c) == c = " "

\* The lower-case form of each character.
LowerTable ==
    [c \in DOMAIN CodeTable |->
        IF CodeTable[c] >= 65 /\ CodeTable[c] <= 90
        THEN CharAt(AsciiHigh, CodeTable[c] + 32 - 96)
        ELSE c]

LowerChar(c) == LowerTable[c]

RECURSIVE ToLowerCase(_)
ToLowerCase(s) ==
    IF Len(s) = 0 THEN ""
    ELSE LowerChar(CharAt(s, 1)) \o ToLowerCase(SubSeq(s, 2, Len(s)))

RECURSIVE TrimStart(_)
TrimStart(s) ==
    IF Len(s) > 0 /\ IsSpace(CharAt(s, 1)) THEN TrimStart(SubSeq(s, 2, Len(s))) ELSE s

RECURSIVE TrimEnd(_)
TrimEnd(s) ==
    IF Len(s) > 0 /\ IsSpace(CharAt(s, Len(s))) THEN TrimEnd(SubSeq(s, 1, Len(s) - 1)) ELSE s

Trim(s) == TrimEnd(TrimStart(s))

\* String.prototype.includes
Includes(s, sub) ==
    \E i \in 1..(Len(s) - Len(sub) + 1) : SubSeq(s, i, i + Len(sub) - 1) = sub

\* s.replace(/[$,]/g, '')
RECURSIVE StripCurrency(_)
StripCurrency(s) ==
    IF Len(s) = 0 THEN ""
    ELSE (IF CharAt(s, 1) \in {"$", ","} THEN "" ELSE CharAt(s, 1))
         \o StripCurrency(SubSeq(s, 2, Len(s)))

\* s.replace('%', ''): the first occurrence only
RECURSIVE ReplaceFirstPercent(_)
ReplaceFirstPercent(s) ==
    IF Len(s) = 0 THEN ""
    ELSE IF CharAt(s, 1) = "%" THEN SubSeq(s, 2, Len(s))
    ELSE CharAt(s, 1) \o ReplaceFirstPercent(SubSeq(s, 2, Len(s)))

\* The < of two strings: by code units, a proper prefix first.
RECURSIVE StrLess(_, _)
StrLess(a, b) ==
    IF Len(b) = 0 THEN FALSE
    ELSE IF Len(a) = 0 THEN TRUE
    ELSE IF CharAt(a, 1) = CharAt(b, 1)
         THEN StrLess(SubSeq(a, 2, Len(a)), SubSeq(b, 2, Len(b)))
         ELSE CharCode(CharAt(a, 1)) < CharCode(CharAt(b, 1))

----------------------------------------------------------------------------
(* Numbers and strings *)

\* The length of the longest prefix of s made of digits.
RECURSIVE DigitRun(_)
DigitRun(s) ==
    IF Len(s) > 0 /\ IsDigit(CharAt(s, 1)) THEN 1 + DigitRun(SubSeq(s, 2, Len(s))) ELSE 0

\* The value of a string of digits.
RECURSIVE DigitsValue(_)
DigitsValue(s) ==
    IF Len(s) = 0 THEN 0
    ELSE 10 * DigitsValue(SubSeq(s, 1, Len(s) - 1)) + (CharCode(CharAt(s, Len(s))) - 48)

\* The first two decimals of a string of fraction digits, in hundredths.
FractionValue(s) ==
    IF Len(s) = 0 THEN 0
    ELSE IF Len(s) = 1 THEN 10 * DigitsValue(s)
    ELSE DigitsValue(SubSeq(s, 1, 2))

\* The digits at the start of s.
LeadingDigits(s) == SubSeq(s, 1, DigitRun(s))

\* The digits of the fraction that starts rest, "" when rest starts no fraction.
FractionDigits(rest) ==
    IF Len(rest) > 0 /\ CharAt(rest, 1) = "."
    THEN LeadingDigits(SubSeq(rest, 2, Len(rest)))
    ELSE ""

\* The number with the integer digits int and the fraction digits frac.
Magnitude(int, frac) ==
    IF int = "" /\ frac = "" THEN NaN
    ELSE Num(100 * DigitsValue(int) + FractionValue(frac))

\* The number at the start of s (no sign): digits int, then whatever follows.
UnsignedFrom(s, int) == Magnitude(int, FractionDigits(SubSeq(s, Len(int) + 1, Len(s))))

UnsignedValue(s) == UnsignedFrom(s, LeadingDigits(s))

\* x with the sign of a leading "-".
WithSign(neg, x) == IF neg /\ IsNum(x) THEN Num(0 - x.v) ELSE x

\* The number at the start of s: a sign, then the unsigned number.
SignedValue(s) ==
    WithSign(Len(s) > 0 /\ CharAt(s, 1) = "-",
             UnsignedValue(IF Len(s) > 0 /\ CharAt(s, 1) \in {"-", "+"}
                           THEN SubSeq(s, 2, Len(s)) ELSE s))

\* parseFloat of a string: leading white space, a sign, digits, a fraction;
\* whatever follows is ignored; NaN when no digit is found.
ParseFloatStr(str) == SignedValue(TrimStart(str))

\* The decimal digits of a natural number.
RECURSIVE NatToStr(_)
NatToStr(n) ==
    IF n < 10 THEN CharAt("0123456789", n + 1)
    ELSE NatToStr(n \div 10) \o CharAt("0123456789", (n % 10) + 1)

\* String(x) of a number in hundredths: 12000 is "120", 98 is "0.98", 150 is "1.5".
NumToStr(n) ==
    LET mag == IF n < 0 THEN 0 - n ELSE n
        whole == NatToStr(mag \div 100)
        frac == mag % 100
        fracStr == IF frac = 0 THEN ""
                   ELSE IF frac % 10 = 0 THEN "." \o NatToStr(frac \div 10)
                   ELSE IF frac < 10 THEN ".0" \o NatToStr(frac)
                   ELSE "." \o NatToStr(frac)
    IN  (IF n < 0 THEN "-" ELSE "") \o whole \o fracStr

\* String(x)
JsString(x) ==
    CASE x.t = "str" -> x.v
      [] x.t = "num" -> NumToStr(x.v)
      [] x.t = "nan" -> "NaN"
      [] OTHER -> "undefined"

\* parseFloat(x)
ParseFloat(x) == ParseFloatStr(JsString(x))

\* x || 0 for a number or a string
OrZero(x) ==
    CASE x.t = "num" -> IF x.v = 0 THEN Num(0) ELSE x
      [] x.t = "str" -> IF x.v = "" THEN Num(0) ELSE x
      [] OTHER -> Num(0)

\* The truth of a value in a condition.
Truthy(x) ==
    CASE x.t = "num" -> x.v # 0
      [] x.t = "str" -> x.v # ""
      [] OTHER -> FALSE

\* ToNumber of a value in an arithmetic or relational expression.
\* p when it is written exactly as s, NaN otherwise (a numeric string has no
\* trailing text).
ExactOrNaN(p, s) == IF IsNum(p) /\ JsString(p) = s THEN p ELSE NaN

\* ToNumber of a trimmed string.
StringToNumber(s) == IF s = "" THEN Num(0) ELSE ExactOrNaN(ParseFloatStr(s), s)

ToNumber(x) ==
    CASE x.t = "num" -> x
      [] x.t = "str" -> StringToNumber(Trim(x.v))
      [] OTHER -> NaN

\* x < y, x >= y, x * y, x / y of two numbers (NaN compares false, and spreads).
NumLess(x, y) == IsNum(x) /\ IsNum(y) /\ x.v < y.v
NumGeq(x, y) == IsNum(x) /\ IsNum(y) /\ x.v >= y.v
NumMul(x, y) == IF IsNum(x) /\ IsNum(y) THEN Num((x.v * y.v) \div 100) ELSE NaN
NumDiv(x, y) == IF IsNum(x) /\ IsNum(y) /\ y.v # 0 THEN Num((x.v * 100) \div y.v) ELSE NaN

\* a < b
JsLess(a, b) ==
    IF IsStr(a) /\ IsStr(b) THEN StrLess(a.v, b.v)
    ELSE NumLess(ToNumber(a), ToNumber(b))

\* a > b
JsGreater(a, b) == JsLess(b, a)

\* a >= b
JsGeq(a, b) ==
    IF IsStr(a) /\ IsStr(b) THEN ~StrLess(a.v, b.v)
    ELSE NumGeq(ToNumber(a), ToNumber(b))

\* a <= b
JsLeq(a, b) == JsGeq(b, a)

\* a * b
JsMul(a, b) == NumMul(ToNumber(a), ToNumber(b))

\* a / b, for b other than 0
JsDiv(a, b) == NumDiv(ToNumber(a), ToNumber(b))

\* a + b of two numbers
JsAdd(a, b) ==
    IF IsNum(a) /\ IsNum(b) THEN Num(a.v + b.v) ELSE NaN

----------------------------------------------------------------------------
(* Sequences *)

Range(f) == {f[i] : i \in DOMAIN f}

\* The position of the first element of seq equal to x (0 when there is none).
IndexOf(seq, x) ==
    IF \E i \in 1..Len(seq) : seq[i] = x
    THEN CHOOSE i \in 1..Len(seq) : seq[i] = x /\ \A j \in 1..(i - 1) : seq[j] # x
    ELSE 0

----------------------------------------------------------------------------
(* Configuration *)

\* FIELD_MAPPING_CONFIG, in the order of its entries.
FIELD_MAPPING_CONFIG == <<
    [key |-> "partner", terms |-> <<"Partner">>],
    [key |-> "advertiser", terms |-> <<"Advertiser">>],
    [key |-> "campaign", terms |-> <<"Campaign">>],
    [key |-> "decisioned", terms |-> <<"Market Type", "Decisioned", "Decisioned/Non-Decisioned">>],
    [key |-> "score", terms |-> <<"Avg. Campaign Decision Power Score", "Decision Power Score", "Score">>],
    [key |-> "incrementalBudget",
     terms |-> <<"Avg. Campaign Daily Incremental Budget", "Avg. Campaign Daily Incremental Budget Ideal",
                 "Campaign Incremental Budget", "Daily Budget">>],
    [key |-> "daysRemaining", terms |-> <<"Flight Days Remaining", "Days Remaining", "Remaining Days">>],
    [key |-> "pacing", terms |-> <<"Pacing", "Pacing Percentage", "Campaign Pacing">>],
    [key |-> "beatingGoal", terms |-> <<"Beating KPI Goal">>],
    [key |-> "kpiType", terms |-> <<"Goal Type", "KPI Type">>],
    [key |-> "goalValue", terms |-> <<"Goal Value">>],
    [key |-> "avgKpiValue", terms |-> <<"Average KPI Value">>] >>

CanonicalKeys == {FIELD_MAPPING_CONFIG[i].key : i \in 1..Len(FIELD_MAPPING_CONFIG)}

\* The keys parsed as numbers (other than pacing).
NumericKeys == {"score", "incrementalBudget", "daysRemaining", "avgKpiValue", "goalValue"}

\* The keys that default to 0 when the cell is undefined or null.
ZeroDefaultKeys == {"score", "incrementalBudget", "daysRemaining", "pacing"}

----------------------------------------------------------------------------
(* Data normalization.  A parsed sheet (json) is [headers, rows]: the keys   *)
(* of its row objects in order, and per row the cells in that order.        *)

\* h.trim().toLowerCase() === term.toLowerCase() for some term
HeaderMatches(h, terms) ==
    \E i \in 1..Len(terms) : ToLowerCase(Trim(h)) = ToLowerCase(terms[i])

\* A resolver that prefers the earliest synonym: the header matching the first
\* term that matches any header.
FindHeaderBySynonymOrder(headers, terms) ==
    IF \E i \in 1..Len(headers) : HeaderMatches(headers[i], terms)
    THEN CHOOSE i \in 1..Len(headers) :
            \E n \in 1..Len(terms) :
                /\ HeaderMatches(headers[i], <<terms[n]>>)
                /\ \A j \in 1..(i - 1) : ~HeaderMatches(headers[j], <<terms[n]>>)
                /\ \A m \in 1..(n - 1) : \A j \in 1..Len(headers) :
                        ~HeaderMatches(headers[j], <<terms[m]>>)
    ELSE 0

\* headers.find(...): the position of the first matching header, 0 when none.
FindHeader(headers, terms) ==
    IF \E i \in 1..Len(headers) : HeaderMatches(headers[i], terms)
    THEN CHOOSE i \in 1..Len(headers) :
            /\ HeaderMatches(headers[i], terms)
            /\ \A j \in 1..(i - 1) : ~HeaderMatches(headers[j], terms)
    ELSE 0

\* AppState.fieldMap after step 1: the keys with a (non-empty) matching header.
BuildFieldMap(headers) ==
    LET Pos(k) == FindHeader(headers, FIELD_MAPPING_CONFIG[k].terms)
        mapped == {k \in 1..Len(FIELD_MAPPING_CONFIG) : Pos(k) # 0 /\ headers[Pos(k)] # ""}
    IN  [key \in {FIELD_MAPPING_CONFIG[k].key : k \in mapped} |->
            LET k == CHOOSE k \in mapped : FIELD_MAPPING_CONFIG[k].key = key
            IN  headers[Pos(k)]]

\* row[mapping]
CellOf(headers, row, mapping) ==
    LET i == IndexOf(headers, mapping)
    IN  IF i = 0 THEN Undef ELSE row[i]

\* The pacing branch: "98%" is 98, a value <= 2.0 is a ratio, capped at 100.
RatioAsPercent(v) == IF IsNum(v) /\ v.v <= 200 THEN Num(v.v * 100) ELSE v

CapAt100(v) == IF NumLess(OfInt(100), v) THEN OfInt(100) ELSE v

PacingOf(str) ==
    IF Includes(str, "%")
    THEN ParseFloatStr(ReplaceFirstPercent(StripCurrency(str)))
    ELSE RatioAsPercent(ParseFloatStr(StripCurrency(str)))

CoercePacing(val) == CapAt100(PacingOf(JsString(val)))

\* The value stored in normalized[key] for the cell val.
CoerceCell(key, val) ==
    IF val.t # "undef"
    THEN IF key = "pacing" THEN CoercePacing(val)
         ELSE IF key \in NumericKeys
              THEN OrZero(ParseFloatStr(StripCurrency(JsString(val))))
              ELSE Str(Trim(JsString(val)))
    ELSE IF key \in ZeroDefaultKeys THEN Num(0) ELSE Str("")

\* A direction test that knows cpa only.
IsLowerBetterCpaOnly(kpiType) == Includes(ToLowerCase(JsString(kpiType)), "cpa")

\* typeof lower-is-better: the type names cpa or cost
NamesCpaOrCost(type) == Includes(type, "cpa") \/ Includes(type, "cost")

IsLowerBetter(kpiType) == NamesCpaOrCost(ToLowerCase(JsString(kpiType)))

\* calculatedBeating
CalculatedBeating(kpiType, avg, goal) ==
    IF IsLowerBetter(kpiType)
    THEN JsGreater(goal, Num(0)) /\ JsLeq(avg, goal)
    ELSE JsGeq(avg, goal)

\* A normalizer that also calculates the flag when the goal is 0.
BeatingGoalBoolCalculatedAtZero(kpiType, avg, goal, beatingGoal) ==
    IF JsGeq(goal, Num(0))
    THEN CalculatedBeating(kpiType, avg, goal)
    ELSE ToLowerCase(JsString(beatingGoal)) \in {"true", "yes", "1"}

\* normalized.beatingGoalBool
BeatingGoalBool(kpiType, avg, goal, beatingGoal) ==
    IF JsGreater(goal, Num(0))
    THEN CalculatedBeating(kpiType, avg, goal)
    ELSE ToLowerCase(JsString(beatingGoal)) \in {"true", "yes", "1"}

\* The mapped fields of one row: the loop over AppState.fieldMap.
MappedFields(fm, headers, row) ==
    [key \in CanonicalKeys |->
        IF key \in DOMAIN fm
        THEN CoerceCell(key, CellOf(headers, row, fm[key]))
        ELSE Undef]

\* The record made of the mapped fields, with avg and goal as the KPI block
\* reads them.
NormalizedRecord(index, field, avg, goal) ==
        [_id |-> index,
         partner |-> field["partner"],
         advertiser |-> field["advertiser"],
         campaign |-> field["campaign"],
         decisioned |-> field["decisioned"],
         score |-> field["score"],
         incrementalBudget |-> field["incrementalBudget"],
         daysRemaining |-> field["daysRemaining"],
         pacing |-> field["pacing"],
         beatingGoal |-> field["beatingGoal"],
         kpiType |-> field["kpiType"],
         goalValue |-> field["goalValue"],
         avgKpiValue |-> field["avgKpiValue"],
         kpiPerfRatio |-> IF goal.v # 0 THEN JsDiv(avg, goal) ELSE Num(0),
         beatingGoalBool |-> BeatingGoalBool(field["kpiType"], avg, goal, field["beatingGoal"]),
         calculatedOpportunity |-> Num(0)]

\* The record of the mapped fields: the defaults and the KPI block.
NormalizeFields(index, field) ==
    NormalizedRecord(index, field, OrZero(ParseFloat(field["avgKpiValue"])),
                     OrZero(ParseFloat(field["goalValue"])))

\* _row: the record keeps the original row, its keys in column order.
KeepOriginal(normalized, headers, row) ==
    [f \in DOMAIN normalized \cup {"_row"} |->
        IF f = "_row" THEN [keys |-> headers, cells |-> row] ELSE normalized[f]]

\* The record of one row: the callback of json.map.
NormalizeRow(fm, headers, row, index) ==
    KeepOriginal(NormalizeFields(index, MappedFields(fm, headers, row)), headers, row)

\* AppState.rawData after step 2 (_id is the 0-based row index).
NormalizeRows(json) ==
    LET fm == BuildFieldMap(json.headers)
    IN  [i \in 1..Len(json.rows) |-> NormalizeRow(fm, json.headers, json.rows[i], i - 1)]

----------------------------------------------------------------------------
(* Records and the working subset *)

\* The record with identity id (rawData[id] in the code's 0-based array).
RecordOf(raw, id) == raw[id + 1]

\* The records of a sequence of identities.
Records(raw, ids) == [i \in 1..Len(ids) |-> RecordOf(raw, ids[i])]

\* a[key] of an object: undefined when it has no such property.
Prop(a, key) == IF key \in DOMAIN a THEN a[key] ELSE Undef

\* [...new Set(data.map(d => d[key]).filter(Boolean))]
DistinctTruthy(raw, key) == {raw[i][key].v : i \in {j \in 1..Len(raw) : Truthy(raw[j][key])}}

\* The checkboxes populateFilters checks: every type but the no-goal ones.
DefaultChecked(types) == {type \in types : ToLowerCase(type) \notin {"no goal", "none", "n/a"}}

----------------------------------------------------------------------------
(* Opportunity calculation *)

\* A pass that also accepts a score equal to the threshold.
QualifiesInclusiveScore(item, scoreThreshold, pacingThreshold) ==
    /\ JsGeq(item.pacing, OfInt(pacingThreshold))
    /\ JsGeq(item.score, OfInt(scoreThreshold))

\* isPacingHigh && isScoreHigh
Qualifies(item, scoreThreshold, pacingThreshold) ==
    /\ JsGeq(item.pacing, OfInt(pacingThreshold))
    /\ JsGreater(item.score, OfInt(scoreThreshold))

\* A pass that falls back to the budget when the product is 0.
OpportunityNeverZero(item, scoreThreshold, pacingThreshold) ==
    IF Qualifies(item, scoreThreshold, pacingThreshold)
    THEN IF JsMul(item.incrementalBudget, item.daysRemaining) = Num(0)
         THEN item.incrementalBudget
         ELSE JsMul(item.incrementalBudget, item.daysRemaining)
    ELSE Num(0)

\* item.calculatedOpportunity after the pass
Opportunity(item, scoreThreshold, pacingThreshold) ==
    IF Qualifies(item, scoreThreshold, pacingThreshold)
    THEN JsMul(item.incrementalBudget, item.daysRemaining)
    ELSE Num(0)

\* A pass that adds to the value a record already has.
CalculatedDataAccumulating(raw, ids, scoreThreshold, pacingThreshold) ==
    [i \in 1..Len(raw) |->
        IF raw[i]._id \in Range(ids)
        THEN [raw[i] EXCEPT !.calculatedOpportunity =
                                JsAdd(@, Opportunity(raw[i], scoreThreshold, pacingThreshold))]
        ELSE raw[i]]

\* A pass that numbers the records of the working subset anew.
CalculatedDataRenumbering(raw, ids, scoreThreshold, pacingThreshold) ==
    [i \in 1..Len(raw) |->
        IF raw[i]._id \in Range(ids)
        THEN [raw[i] EXCEPT !.calculatedOpportunity =
                                Opportunity(raw[i], scoreThreshold, pacingThreshold),
                            !._id = IndexOf(ids, raw[i]._id) - 1]
        ELSE raw[i]]

\* A pass without the else branch: a record that stops qualifying keeps its value.
CalculatedDataKeepingStale(raw, ids, scoreThreshold, pacingThreshold) ==
    [i \in 1..Len(raw) |->
        IF raw[i]._id \in Range(ids) /\ Qualifies(raw[i], scoreThreshold, pacingThreshold)
        THEN [raw[i] EXCEPT !.calculatedOpportunity =
                                Opportunity(raw[i], scoreThreshold, pacingThreshold)]
        ELSE raw[i]]

\* rawData after the forEach of runCalculation over the working subset ids.
CalculatedData(raw, ids, scoreThreshold, pacingThreshold) ==
    [i \in 1..Len(raw) |->
        IF raw[i]._id \in Range(ids)
        THEN [raw[i] EXCEPT !.calculatedOpportunity =
                                Opportunity(raw[i], scoreThreshold, pacingThreshold)]
        ELSE raw[i]]

\* grandTotal += opportunityValue, in the qualifying branch only.
AddedToTotal(before, item, scoreThreshold, pacingThreshold) ==
    IF Qualifies(item, scoreThreshold, pacingThreshold)
    THEN JsAdd(before, Opportunity(item, scoreThreshold, pacingThreshold))
    ELSE before

RECURSIVE GrandTotal(_, _, _, _, _)
\* grandTotal after the items at positions from.. of the working subset.
GrandTotal(raw, ids, from, scoreThreshold, pacingThreshold) ==
    IF from < 1 THEN Num(0)
    ELSE AddedToTotal(GrandTotal(raw, ids, from - 1, scoreThreshold, pacingThreshold),
                      RecordOf(raw, ids[from]), scoreThreshold, pacingThreshold)

\* qualifyingCount
QualifyingCount(raw, ids, scoreThreshold, pacingThreshold) ==
    Cardinality({i \in 1..Len(ids) :
                    Qualifies(RecordOf(raw, ids[i]), scoreThreshold, pacingThreshold)})

\* Totals taken over the full set instead of the working subset.
CalculatedMetaOverFullSet(raw, ids, scoreThreshold, pacingThreshold) ==
    [totalOpportunity |-> GrandTotal(raw, [i \in 1..Len(raw) |-> raw[i]._id], Len(raw),
                                     scoreThreshold, pacingThreshold),
     qualifyingCount |-> QualifyingCount(raw, [i \in 1..Len(raw) |-> raw[i]._id],
                                         scoreThreshold, pacingThreshold)]

\* AppState.meta after the pass
CalculatedMeta(raw, ids, scoreThreshold, pacingThreshold) ==
    [totalOpportunity |-> GrandTotal(raw, ids, Len(ids), scoreThreshold, pacingThreshold),
     qualifyingCount |-> QualifyingCount(raw, ids, scoreThreshold, pacingThreshold)]

----------------------------------------------------------------------------
(* Filtering *)

\* A filter that lets every type pass while no type is checked.
PassesFiltersNoneMeansAll(item, u) ==
    /\ ~(u.partner # "all" /\ item.partner # Str(u.partner))
    /\ ~(u.advertiser # "all" /\ item.advertiser # Str(u.advertiser))
    /\ ~(u.campaign # "all" /\ item.campaign # Str(u.campaign))
    /\ u.kpiChecked = {} \/ (IsStr(item.kpiType) /\ item.kpiType.v \in u.kpiChecked)
    /\ ~(u.beatingKpi /\ ~item.beatingGoalBool)

\* The callback of rawData.filter in applyFilters.
PassesFilters(item, u) ==
    /\ ~(u.partner # "all" /\ item.partner # Str(u.partner))
    /\ ~(u.advertiser # "all" /\ item.advertiser # Str(u.advertiser))
    /\ ~(u.campaign # "all" /\ item.campaign # Str(u.campaign))
    /\ IsStr(item.kpiType) /\ item.kpiType.v \in u.kpiChecked
    /\ ~(u.beatingKpi /\ ~item.beatingGoalBool)

\* AppState.rawData.filter(...): the identities that pass, in rawData order.
FilteredIds(raw, u) ==
    LET Pass(i) == PassesFilters(raw[i], u)
        idx == SelectSeq([i \in 1..Len(raw) |-> i], Pass)
    IN  [i \in 1..Len(idx) |-> raw[idx[i]]._id]

----------------------------------------------------------------------------
(* Sorting.  Array.prototype.sort is stable; it is modelled as an insertion  *)
(* sort that calls the comparator the code passes.                           *)

\* The result of a comparator for the values of a and b.
CompareValues(valA, valB, direction) ==
    IF JsLess(valA, valB) THEN (IF direction = "asc" THEN -1 ELSE 1)
    ELSE IF JsGreater(valA, valB) THEN (IF direction = "asc" THEN 1 ELSE -1)
    ELSE 0

\* a[key] ?? 0 (a normalized value is never null)
UndefinedAsZero(x) == IF x.t = "undef" THEN Num(0) ELSE x

\* String(x).toLowerCase()
LowerString(x) == Str(ToLowerCase(JsString(x)))

\* Both values as lower-case strings when either is a string.
CompareTableValues(valA, valB, direction) ==
    IF IsStr(valA) \/ IsStr(valB)
    THEN CompareValues(LowerString(valA), LowerString(valB), direction)
    ELSE CompareValues(valA, valB, direction)

\* The comparator of renderTable for (a, b).
TableCompare(a, b, cfg) ==
    CompareTableValues(UndefinedAsZero(Prop(a, cfg.key)), UndefinedAsZero(Prop(b, cfg.key)),
                       cfg.direction)

\* (a.name || a.campaign || '').toLowerCase()
PivotName(a) ==
    IF Truthy(Prop(a, "name")) THEN ToLowerCase(JsString(a.name))
    ELSE IF Truthy(Prop(a, "campaign")) THEN ToLowerCase(JsString(a.campaign))
    ELSE ""

\* The sort value of sortFn for a tree node or a campaign record.
PivotSortValue(a, key) ==
    IF key \in {"partner", "advertiser", "campaign"} THEN OrZero(Str(PivotName(a)))
    ELSE IF "metrics" \in DOMAIN a
         THEN (IF key = "score"
               THEN OrZero(JsDiv(a.metrics.score, a.metrics.count))
               ELSE OrZero(Prop(a.metrics, key)))
         ELSE OrZero(Prop(a, key))

\* sortFn of renderPivotView for (a, b).
PivotCompare(a, b, cfg) ==
    CompareValues(PivotSortValue(a, cfg.key), PivotSortValue(b, cfg.key), cfg.direction)

Compare(kind, a, b, cfg) ==
    IF kind = "pivot" THEN PivotCompare(a, b, cfg) ELSE TableCompare(a, b, cfg)

RECURSIVE InsertPos(_, _, _, _, _)
\* Where x goes in the sorted prefix: after the last element, from the right,
\* that the comparator does not put after x.
InsertPos(sorted, j, x, kind, cfg) ==
    IF j = 0 THEN 0
    ELSE IF Compare(kind, sorted[j], x, cfg) <= 0 THEN j
    ELSE InsertPos(sorted, j - 1, x, kind, cfg)

\* sorted with x put after its first pos elements.
InsertedAt(sorted, x, pos) ==
    SubSeq(sorted, 1, pos) \o <<x>> \o SubSeq(sorted, pos + 1, Len(sorted))

\* sorted with x put in its place.
Inserted(sorted, x, kind, cfg) ==
    InsertedAt(sorted, x, InsertPos(sorted, Len(sorted), x, kind, cfg))

RECURSIVE SortPrefix(_, _, _, _)
\* The first n elements of seq, sorted.
SortPrefix(seq, n, kind, cfg) ==
    IF n = 0 THEN <<>>
    ELSE Inserted(SortPrefix(seq, n - 1, kind, cfg), seq[n], kind, cfg)

\* array.sort(comparator)
Sort(seq, kind, cfg) == SortPrefix(seq, Len(seq), kind, cfg)

----------------------------------------------------------------------------
(* Aggregation *)

RECURSIVE FirstOccurrences(_)
\* The distinct elements of a sequence, in the order of their first occurrence
\* (the order of the values of an object keyed by them).
FirstOccurrences(seq) ==
    IF Len(seq) = 0 THEN <<>>
    ELSE LET before == FirstOccurrences(SubSeq(seq, 1, Len(seq) - 1))
             last == seq[Len(seq)]
         IN  IF last \in Range(before) THEN before ELSE Append(before, last)

RECURSIVE SumOrZero(_, _, _)
\* The sum of (item[key] || 0) over the first n items.
SumOrZero(items, n, key) ==
    IF n = 0 THEN Num(0)
    ELSE JsAdd(SumOrZero(items, n - 1, key), OrZero(Prop(items[n], key)))

\* Math.round(total / count) of a number in hundredths and a count
RoundedAverage(total, count) ==
    IF IsNum(total) THEN OfInt((2 * total.v + 100 * count) \div (200 * count)) ELSE NaN

\* item[viewLevel] || 'Unknown'
GroupKey(item, viewLevel) ==
    IF Truthy(item[viewLevel]) THEN JsString(item[viewLevel]) ELSE "Unknown"

\* The summary rows of the flat group-by, before sorting.
GroupRows(data, viewLevel) ==
    LET keys == FirstOccurrences([i \in 1..Len(data) |-> GroupKey(data[i], viewLevel)])
        Row(k) ==
            LET InGroup(item) == GroupKey(item, viewLevel) = k
                members == SelectSeq(data, InGroup)
                n == Len(members)
            IN  [name |-> Str(k),
                 partner |-> members[1].partner,
                 count |-> OfInt(n),
                 calculatedOpportunity |-> SumOrZero(members, n, "calculatedOpportunity"),
                 incrementalBudget |-> SumOrZero(members, n, "incrementalBudget"),
                 avgScore |-> RoundedAverage(SumOrZero(members, n, "score"), n)]
    IN  [i \in 1..Len(keys) |-> Row(keys[i])]

\* An accumulator that assigns where it should add: the last item's values.
MetricsOverwriting(items) ==
    [count |-> OfInt(Len(items)),
     score |-> OrZero(Prop(items[Len(items)], "score")),
     incrementalBudget |-> OrZero(Prop(items[Len(items)], "incrementalBudget")),
     calculatedOpportunity |-> OrZero(Prop(items[Len(items)], "calculatedOpportunity"))]

\* createMetrics() followed by accumulateMetrics(target, item) for each item
Metrics(items) ==
    [count |-> OfInt(Len(items)),
     score |-> SumOrZero(items, Len(items), "score"),
     incrementalBudget |-> SumOrZero(items, Len(items), "incrementalBudget"),
     calculatedOpportunity |-> SumOrZero(items, Len(items), "calculatedOpportunity")]

\* item.partner || 'Unknown Partner'
PartnerName(item) ==
    IF Truthy(item.partner) THEN JsString(item.partner) ELSE "Unknown Partner"

\* item.advertiser || 'Unknown Advertiser'
AdvertiserName(item) ==
    IF Truthy(item.advertiser) THEN JsString(item.advertiser) ELSE "Unknown Advertiser"

\* The pivot tree of renderPivotView, sorted: the partner nodes, each with its
\* advertiser nodes (sortedChildren), each with its campaign records.
PivotTree(data, cfg) ==
    LET pNames == FirstOccurrences([i \in 1..Len(data) |-> PartnerName(data[i])])
        AdvNode(items, aName) ==
            LET OfAdv(item) == AdvertiserName(item) = aName
                campaigns == SelectSeq(items, OfAdv)
            IN  [name |-> Str(aName),
                 metrics |-> Metrics(campaigns),
                 children |-> Sort(campaigns, "pivot", cfg)]
        PartnerNode(pName) ==
            LET OfPartner(item) == PartnerName(item) = pName
                items == SelectSeq(data, OfPartner)
                aNames == FirstOccurrences([i \in 1..Len(items) |-> AdvertiserName(items[i])])
            IN  [name |-> Str(pName),
                 metrics |-> Metrics(items),
                 children |-> Sort([i \in 1..Len(aNames) |-> AdvNode(items, aNames[i])],
                                   "pivot", cfg)]
    IN  Sort([i \in 1..Len(pNames) |-> PartnerNode(pNames[i])], "pivot", cfg)

\* The campaign identities of a pivot tree, one list per advertiser node.
PivotIds(tree) ==
    [p \in 1..Len(tree) |->
        [name |-> tree[p].name,
         metrics |-> tree[p].metrics,
         children |->
            [a \in 1..Len(tree[p].children) |->
                [name |-> tree[p].children[a].name,
                 metrics |-> tree[p].children[a].metrics,
                 children |->
                    [c \in 1..Len(tree[p].children[a].children) |->
                        tree[p].children[a].children[c]._id]]]]]

----------------------------------------------------------------------------
(* Rendering *)

\* The rows shown at once: tableData.slice(0, 100).
PageSize == 100

\* The keys of the column headers of each view: what a click can sort by.
HeaderKeys(viewLevel) ==
    CASE viewLevel = "campaign" ->
            {"partner", "advertiser", "campaign", "kpiType", "avgKpiValue", "goalValue",
             "kpiPerfRatio", "score", "daysRemaining", "pacing", "incrementalBudget",
             "calculatedOpportunity"}
      [] viewLevel = "advertiser" ->
            {"name", "partner", "count", "avgScore", "incrementalBudget", "calculatedOpportunity"}
      [] viewLevel = "partner" ->
            {"name", "count", "avgScore", "incrementalBudget", "calculatedOpportunity"}
      [] OTHER -> {"partner", "score", "incrementalBudget", "calculatedOpportunity"}

\* tableData.slice(0, 100)
FirstPage(rows) == SubSeq(rows, 1, IF Len(rows) > PageSize THEN PageSize ELSE Len(rows))

\* The identities of a sequence of records.
IdsOf(records) == [i \in 1..Len(records) |-> records[i]._id]

\* The campaign view: the array it was given is now in sorted order.
CampaignTable(sortedIds) ==
    [processedData |-> sortedIds,
     tableRows |-> [level |-> "campaign", rows |-> FirstPage(sortedIds)]]

\* renderTable(AppState.processedData): the table shown, and processedData
\* afterwards (the campaign view sorts the array it is given, in place).
RenderView(data, ids, viewLevel, cfg) ==
    IF viewLevel = "pivot"
    THEN [processedData |-> ids,
          tableRows |-> [level |-> "pivot", rows |-> PivotIds(PivotTree(data, cfg))]]
    ELSE IF viewLevel = "campaign"
    THEN CampaignTable(IdsOf(Sort(data, "table", cfg)))
    ELSE [processedData |-> ids,
          tableRows |-> [level |-> viewLevel,
                         rows |-> FirstPage(Sort(GroupRows(data, viewLevel), "table", cfg))]]

RenderTable(raw, ids, viewLevel, cfg) == RenderView(Records(raw, ids), ids, viewLevel, cfg)

\* The state after the pass and the render.
AfterCalculation(calculated, newMeta, rendered) ==
    [rawData |-> calculated,
     processedData |-> rendered.processedData,
     meta |-> newMeta,
     tableRows |-> rendered.tableRows]

\* updateUI(...) and renderTable(AppState.processedData) after the pass.
RenderCalculated(calculated, newMeta, ids, u, cfg) ==
    AfterCalculation(calculated, newMeta, RenderTable(calculated, ids, u.viewLevel, cfg))

\* runCalculation(): the pass over the working subset, the totals, the render.
RunCalculation(raw, ids, u, cfg) ==
    RenderCalculated(CalculatedData(raw, ids, u.score, u.pacing),
                     CalculatedMeta(raw, ids, u.score, u.pacing), ids, u, cfg)

\* applyFilters(): the filter over rawData, then runCalculation().
ApplyFilters(raw, u, cfg) == RunCalculation(raw, FilteredIds(raw, u), u, cfg)

----------------------------------------------------------------------------
(* Report generation *)

\* The opportunities listed by the action report and by the standard report.
ActionListLimit == 5
StandardListLimit == 10

RECURSIVE TotalOpp(_, _)
\* opportunities.reduce((acc, curr) => acc + curr.calculatedOpportunity, 0)
TotalOpp(opportunities, n) ==
    IF n = 0 THEN Num(0)
    ELSE JsAdd(TotalOpp(opportunities, n - 1), opportunities[n].calculatedOpportunity)

\* The campaigns of the scope with a positive opportunity.
Opportunities(data, type, target) ==
    LET InScope(d) == type \notin {"partner", "advertiser", "campaign"} \/ d[type] = Str(target)
        IsOpportunity(d) == JsGreater(d.calculatedOpportunity, Num(0))
    IN  SelectSeq(SelectSeq(data, InScope), IsOpportunity)

\* How many opportunities a report of the style lists.
ListLimit(style) ==
    IF style = "executive" THEN 0
    ELSE IF style = "action" THEN ActionListLimit ELSE StandardListLimit

\* The message written when the scope has no opportunity.
NoOpportunitiesText(target, scoreThreshold) ==
    "No qualifying incremental opportunities found for '" \o target
    \o "' based on current logic (Score > " \o NatToStr(scoreThreshold)
    \o ", Pacing ~100%)."

\* The output for the opportunities of a target.
EmailOf(opportunities, u, target, style, limit) ==
    IF Len(opportunities) = 0
    THEN [kind |-> "noOpportunities", target |-> target, scoreThreshold |-> u.score,
          text |-> NoOpportunitiesText(target, u.score)]
    ELSE [kind |-> "report", style |-> style, target |-> target,
          totalOpp |-> TotalOpp(opportunities, Len(opportunities)),
          count |-> Len(opportunities),
          listed |-> [i \in 1..(IF Len(opportunities) > limit THEN limit
                                ELSE Len(opportunities)) |-> opportunities[i]._id],
          others |-> IF style # "executive" /\ Len(opportunities) > limit
                     THEN Len(opportunities) - limit ELSE 0]

\* What generateEmail() writes to the output, as the parts it is made of.
GeneratedEmail(raw, ids, u, type, target, style) ==
    IF target = "" THEN [kind |-> "noTarget"]
    ELSE EmailOf(Opportunities(Records(raw, ids), type, target), u, target, style,
                 ListLimit(style))

----------------------------------------------------------------------------
(* The application *)

InitialUi ==
    [partner |-> "all", advertiser |-> "all", campaign |-> "all",
     kpiChecked |-> {}, beatingKpi |-> FALSE,
     score |-> 100, pacing |-> 99, viewLevel |-> "campaign"]

Init ==
    /\ rawData = <<>>
    /\ processedData = <<>>
    /\ fieldMap = <<>>
    /\ sortConfig = [key |-> "calculatedOpportunity", direction |-> "desc"]
    /\ meta = [totalOpportunity |-> Num(0), qualifyingCount |-> 0]
    /\ ui = InitialUi
    /\ tableRows = [level |-> "campaign", rows |-> <<>>]
    /\ emailOutput = [kind |-> "empty"]
    /\ screen = "upload"
    /\ alerted = ""

\* fillSelect(select, values): the selection is kept when it is still an option.
KeptSelection(current, values) == IF current \in values THEN current ELSE "all"

\* An ingestion whose failure drops the dataset held.
ProcessFileDroppingData(file) ==
    /\ screen = "upload"
    /\ IF file.kind = "unreadable" \/ Len(file.json.rows) = 0
       THEN /\ alerted' = (IF file.kind = "unreadable" THEN "error" ELSE "empty")
            /\ rawData' = <<>>
            /\ processedData' = <<>>
            /\ fieldMap' = <<>>
            /\ UNCHANGED <<sortConfig, meta, ui, tableRows, emailOutput, screen>>
       ELSE \E raw \in {NormalizeRows(file.json)} :
            \E u \in {[ui EXCEPT
                        !.partner = KeptSelection(@, DistinctTruthy(raw, "partner")),
                        !.advertiser = KeptSelection(@, DistinctTruthy(raw, "advertiser")),
                        !.campaign = KeptSelection(@, DistinctTruthy(raw, "campaign")),
                        !.kpiChecked = DefaultChecked(DistinctTruthy(raw, "kpiType"))]} :
            \E after \in {RunCalculation(raw, [i \in 1..Len(raw) |-> raw[i]._id], u, sortConfig)} :
                /\ fieldMap' = BuildFieldMap(file.json.headers)
                /\ rawData' = after.rawData
                /\ processedData' = after.processedData
                /\ meta' = after.meta
                /\ tableRows' = after.tableRows
                /\ ui' = u
                /\ screen' = "dashboard"
                /\ alerted' = ""
                /\ UNCHANGED <<sortConfig, emailOutput>>

\* reader.onload of processFile: the catch, the empty-file return, or
\* normalizeData(json) and transitionToDashboard().
ProcessFile(file) ==
    /\ screen = "upload"
    /\ IF file.kind = "unreadable" \/ Len(file.json.rows) = 0
       THEN /\ alerted' = (IF file.kind = "unreadable" THEN "error" ELSE "empty")
            /\ UNCHANGED <<rawData, processedData, fieldMap, sortConfig, meta, ui, tableRows,
                           emailOutput, screen>>
       ELSE \E raw \in {NormalizeRows(file.json)} :
            \E u \in {[ui EXCEPT
                        !.partner = KeptSelection(@, DistinctTruthy(raw, "partner")),
                        !.advertiser = KeptSelection(@, DistinctTruthy(raw, "advertiser")),
                        !.campaign = KeptSelection(@, DistinctTruthy(raw, "campaign")),
                        !.kpiChecked = DefaultChecked(DistinctTruthy(raw, "kpiType"))]} :
            \E after \in {RunCalculation(raw, [i \in 1..Len(raw) |-> raw[i]._id], u, sortConfig)} :
                /\ fieldMap' = BuildFieldMap(file.json.headers)
                /\ rawData' = after.rawData
                /\ processedData' = after.processedData
                /\ meta' = after.meta
                /\ tableRows' = after.tableRows
                /\ ui' = u
                /\ screen' = "dashboard"
                /\ alerted' = ""
                /\ UNCHANGED <<sortConfig, emailOutput>>

\* The state after applyFilters() under the controls u.
Filtered(u) ==
    \E after \in {ApplyFilters(rawData, u, sortConfig)} :
        /\ ui' = u
        /\ rawData' = after.rawData
        /\ processedData' = after.processedData
        /\ meta' = after.meta
        /\ tableRows' = after.tableRows
        /\ UNCHANGED <<fieldMap, sortConfig, emailOutput, screen, alerted>>

\* The state after the listeners of a slider or of the calculate button, under
\* the controls u: init() calls setupFilterListeners() twice, so two
\* listeners are attached and runCalculation() runs twice.
Calculated(u) ==
    \E first \in {RunCalculation(rawData, processedData, u, sortConfig)} :
    \E after \in {RunCalculation(first.rawData, first.processedData, u, sortConfig)} :
        /\ ui' = u
        /\ rawData' = after.rawData
        /\ processedData' = after.processedData
        /\ meta' = after.meta
        /\ tableRows' = after.tableRows
        /\ UNCHANGED <<fieldMap, sortConfig, emailOutput, screen, alerted>>

\* change on one of the three selects
SelectFilter(which, value) ==
    /\ screen = "dashboard"
    /\ value \in {"all"} \cup DistinctTruthy(rawData, which)
    /\ value # ui[which]
    /\ Filtered([ui EXCEPT ![which] = value])

\* change on a KPI type checkbox
ToggleKpiType(type) ==
    /\ screen = "dashboard"
    /\ type \in DistinctTruthy(rawData, "kpiType")
    /\ Filtered([ui EXCEPT !.kpiChecked = IF type \in @ THEN @ \ {type} ELSE @ \cup {type}])

\* change on the beating-goal checkbox
ToggleBeatingKpi ==
    /\ screen = "dashboard"
    /\ Filtered([ui EXCEPT !.beatingKpi = ~@])

\* input on the score slider
InputScore(value) ==
    /\ screen = "dashboard"
    /\ value # ui.score
    /\ Calculated([ui EXCEPT !.score = value])

\* input on the pacing slider
InputPacing(value) ==
    /\ screen = "dashboard"
    /\ value # ui.pacing
    /\ Calculated([ui EXCEPT !.pacing = value])

\* click on the calculate button
ClickCalculate ==
    /\ screen = "dashboard"
    /\ Calculated(ui)

\* A sort request that keeps the direction when the key changes.
HandleTableSortKeepingDirection(key) ==
    /\ screen = "dashboard"
    /\ key \in HeaderKeys(tableRows.level)
    /\ \E cfg \in {IF sortConfig.key = key
                     THEN [sortConfig EXCEPT !.direction = IF @ = "asc" THEN "desc" ELSE "asc"]
                     ELSE [sortConfig EXCEPT !.key = key]} :
       \E rendered \in {RenderTable(rawData, processedData, ui.viewLevel, cfg)} :
           /\ sortConfig' = cfg
           /\ processedData' = rendered.processedData
           /\ tableRows' = rendered.tableRows
    /\ UNCHANGED <<rawData, fieldMap, meta, ui, emailOutput, screen, alerted>>

\* handleTableSort(key), from a click on a column header of the table shown
HandleTableSort(key) ==
    /\ screen = "dashboard"
    /\ key \in HeaderKeys(tableRows.level)
    /\ \E cfg \in {IF sortConfig.key = key
                     THEN [sortConfig EXCEPT !.direction = IF @ = "asc" THEN "desc" ELSE "asc"]
                     ELSE [key |-> key, direction |-> "desc"]} :
       \E rendered \in {RenderTable(rawData, processedData, ui.viewLevel, cfg)} :
           /\ sortConfig' = cfg
           /\ processedData' = rendered.processedData
           /\ tableRows' = rendered.tableRows
    /\ UNCHANGED <<rawData, fieldMap, meta, ui, emailOutput, screen, alerted>>

\* change on the view level select
ChangeViewLevel(level) ==
    /\ screen = "dashboard"
    /\ level # ui.viewLevel
    /\ \E cfg \in {[sortConfig EXCEPT !.key = "calculatedOpportunity"]} :
       \E rendered \in {RenderTable(rawData, processedData, level, cfg)} :
           /\ sortConfig' = cfg
           /\ processedData' = rendered.processedData
           /\ tableRows' = rendered.tableRows
    /\ ui' = [ui EXCEPT !.viewLevel = level]
    /\ UNCHANGED <<rawData, fieldMap, meta, emailOutput, screen, alerted>>

\* generateEmail(), with the template type, target and style selected
GenerateEmail(type, target, style) ==
    /\ screen = "dashboard"
    /\ emailOutput' = GeneratedEmail(rawData, processedData, ui, type, target, style)
    /\ UNCHANGED <<rawData, processedData, fieldMap, sortConfig, meta, ui, tableRows, screen,
                   alerted>>

\* click on the reset button: location.reload()
Reset ==
    /\ screen = "dashboard"
    /\ rawData' = <<>>
    /\ processedData' = <<>>
    /\ fieldMap' = <<>>
    /\ sortConfig' = [key |-> "calculatedOpportunity", direction |-> "desc"]
    /\ meta' = [totalOpportunity |-> Num(0), qualifyingCount |-> 0]
    /\ ui' = InitialUi
    /\ tableRows' = [level |-> "campaign", rows |-> <<>>]
    /\ emailOutput' = [kind |-> "empty"]
    /\ screen' = "upload"
    /\ alerted' = ""

\* toggleHelp(true), from the help button: the help section replaces the
\* section shown.
OpenHelp ==
    /\ screen \in {"upload", "dashboard"}
    /\ screen' = "help"
    /\ UNCHANGED <<rawData, processedData, fieldMap, sortConfig, meta, ui, tableRows,
                   emailOutput, alerted>>

\* toggleHelp(false), from the back button: the dashboard when processedData
\* holds a record, the upload section otherwise.
CloseHelp ==
    /\ screen = "help"
    /\ screen' = (IF Len(processedData) > 0 THEN "dashboard" ELSE "upload")
    /\ UNCHANGED <<rawData, processedData, fieldMap, sortConfig, meta, ui, tableRows,
                   emailOutput, alerted>>

----------------------------------------------------------------------------
(* Inputs *)

\* The longest sheet ingested.
MaxRows == 3

\* The positions of the score slider and of the pacing slider that are tried.
ScoreChoices == {100, 120}
PacingChoices == {80, 99}

ViewLevels == {"campaign", "advertiser", "partner", "pivot"}

\* Sheets as XLSX.utils.sheet_to_json(worksheet, {defval: ""}) returns them:
\* every row has every header, an empty cell is "".

\* Every column present; a score on the threshold, a pacing on the threshold,
\* a pacing given as a ratio, no days left.
SheetA ==
    [headers |-> <<"Partner", "Advertiser", "Campaign", "Score", "Pacing", "Daily Budget",
                   "Days Remaining", "Goal Type", "Goal Value", "Average KPI Value">>,
     rows |-> <<
        <<Str("A"), Str("X"), Str("c1"), Num(12000), Str("100%"), Str("100"), Num(500),
          Str("CPA"), Num(1000), Num(800)>>,
        <<Str("A"), Str("Y"), Str("c2"), Num(15000), Num(9900), Str("$1,000"), Num(0),
          Str("CTR"), Num(1000), Num(800)>>,
        <<Str("B"), Str("Y"), Str("c3"), Num(13000), Num(80), Num(5000), Num(300),
          Str("No Goal"), Str(""), Str("")>>,
        <<Str("a"), Str("X"), Str("c1"), Num(20000), Str("99.5%"), Num(0), Num(700),
          Str("CTR"), Num(500), Num(500)>> >>]

\* No advertiser, days or average columns; headers in other spellings; a
\* pacing that is no number, a negative pacing, a campaign without a name.
SheetB ==
    [headers |-> <<" partner ", "Campaign", "SCORE", "Campaign Pacing", "Daily Budget",
                   "KPI Type", "Goal Value", "Beating KPI Goal">>,
     rows |-> <<
        <<Str("P"), Str("k1"), Num(13000), Str("105%"), Num(1000),
          Str("CPA"), Num(1000), Str("")>>,
        <<Str("P"), Str(""), Num(15000), Str("abc"), Num(2000),
          Str("Cost per Click"), Num(0), Str("Yes")>>,
        <<Str("P"), Str("k0"), Num(11000), Str("-5"), Num(2000),
          Str("CPA"), Str(""), Str("no")>>,
        <<Str("Q"), Str("k2"), Num(13000), Num(100), Num(1000),
          Str(""), Num(300), Str("TRUE")>> >>]

Sheets == {SheetA, SheetB}

\* The files a user may drop: unreadable ones, and the prefixes of the sheets.
FilesOf(sheets) ==
    {[kind |-> "unreadable", json |-> [headers |-> <<>>, rows |-> <<>>]]}
    \cup {[kind |-> "sheet", json |-> [headers |-> sh.headers, rows |-> SubSeq(sh.rows, 1, n)]] :
            sh \in sheets, n \in 0..MaxRows}

\* One-row sheets for the normalizer: the cells tried in each column.
PacingCells ==
    {Str("98%"), Num(9800), Num(98), Str("0.98"), Num(105), Num(200), Num(201), Str("150%"),
     Str("-5"), Num(-50), Str("abc"), Str(""), Str("$1,200"), Str(" 45 "), Num(0), Str("100%")}
TypeCells == {Str("CPA"), Str("CTR"), Str("Cost Per Click"), Str("eCPA goal"), Str("")}
GoalCells == {Num(1000), Num(0), Str(""), Num(-1000)}
AverageCells == {Num(800), Num(1000), Num(1200), Str("")}
BeatingCells == {Str("TRUE"), Str("Yes"), Num(100), Str("no"), Str("")}

NormalizerFiles ==
    {[kind |-> "sheet",
      json |-> [headers |-> <<"Goal Type", "Goal Value", "Average KPI Value">>,
                rows |-> << <<Str("CPA"), Num(1000), Num(800)>>,
                            <<Str("CTR"), Num(1000), Num(800)>> >>]]}
    \cup
    {[kind |-> "sheet",
      json |-> [headers |-> <<"Campaign", "Pacing">>, rows |-> << <<Str("c"), p>> >>]] :
        p \in PacingCells}
    \cup
    {[kind |-> "sheet",
      json |-> [headers |-> <<"Goal Type", "Goal Value", "Average KPI Value",
                              "Beating KPI Goal">>,
                rows |-> << <<t, g, a, b>> >>]] :
        t \in TypeCells, g \in GoalCells, a \in AverageCells, b \in BeatingCells}
    \cup
    {[kind |-> "sheet",
      json |-> [headers |-> <<"Goal Value", "Average KPI Value">>,
                rows |-> << <<g, a>> >>]] :
        g \in GoalCells, a \in AverageCells}
    \cup
    {[kind |-> "sheet",
      json |-> [headers |-> <<"Goal Type", "Goal Value", "Beating KPI Goal">>,
                rows |-> << <<t, g, b>> >>]] :
        t \in TypeCells, g \in GoalCells, b \in BeatingCells}

\* The longest sheet for the lists of a report, and the lengths tried: one
\* campaign, and as many as make the action list and the standard list stop
\* short.
MaxListRows == 11
ListSizes == {1, MaxListRows - 5, MaxListRows}

\* One partner; budgets that grow down the sheet, days that do not, so that
\* the budget order and the opportunity order differ and some opportunities
\* are equal.
ListRow(k) ==
    <<Str("A"), Str("a" \o NatToStr(k)), Num(15000), Num(10000), Num(1000 * k),
      Num(100 * (((7 * k) % 5) + 1))>>

ListFiles ==
    {[kind |-> "sheet",
      json |-> [headers |-> <<"Partner", "Campaign", "Score", "Pacing", "Daily Budget",
                              "Days Remaining">>,
                rows |-> [k \in 1..n |-> ListRow(k)]]] : n \in ListSizes}

----------------------------------------------------------------------------
(* Specifications *)

\* Every operation, on the sheets.
Next ==
    \/ \E file \in FilesOf(Sheets) : ProcessFile(file)
    \/ \E value \in {"all"} \cup DistinctTruthy(rawData, "partner") : SelectFilter("partner", value)
    \/ ToggleBeatingKpi
    \/ \E value \in ScoreChoices : InputScore(value)
    \/ ClickCalculate
    \/ \E key \in {"calculatedOpportunity", "partner"} : HandleTableSort(key)
    \/ \E level \in ViewLevels : ChangeViewLevel(level)
    \/ \E target \in {""} \cup DistinctTruthy(rawData, "partner") :
          GenerateEmail("partner", target, "action")
    \/ Reset

Spec == Init /\ [][Next]_vars

\* The normalizer alone, on one-row sheets.
NextNormalize ==
    \/ \E file \in NormalizerFiles : ProcessFile(file)
    \/ Reset

SpecNormalize == Init /\ [][NextNormalize]_vars

\* Filters and thresholds.
NextFilter ==
    \/ \E file \in FilesOf(Sheets) : ProcessFile(file)
    \/ \E which \in {"partner", "advertiser", "campaign"} :
          \E value \in {"all"} \cup DistinctTruthy(rawData, which) : SelectFilter(which, value)
    \/ \E type \in DistinctTruthy(rawData, "kpiType") : ToggleKpiType(type)
    \/ ToggleBeatingKpi
    \/ \E value \in ScoreChoices : InputScore(value)
    \/ \E value \in PacingChoices : InputPacing(value)
    \/ ClickCalculate
    \/ Reset

SpecFilter == Init /\ [][NextFilter]_vars

\* Sorting and views.
NextView ==
    \/ \E file \in FilesOf(Sheets) : ProcessFile(file)
    \/ ToggleBeatingKpi
    \/ \E value \in ScoreChoices : InputScore(value)
    \/ \E key \in HeaderKeys(tableRows.level) : HandleTableSort(key)
    \/ \E level \in ViewLevels : ChangeViewLevel(level)
    \/ Reset

SpecView == Init /\ [][NextView]_vars

\* One-row sheets for the schema resolver: every order of every choice of
\* headers among synonyms of kpiType and decisioned in mixed case and with
\* blanks around, and a header that only contains a synonym.  The cell of
\* column i is "c<i>".
HeaderPool == {"Goal Type", " kpi TYPE ", "Goal Type Name", "Decisioned", "MARKET TYPE"}

HeaderRows ==
    UNION {{h \in [1..n -> HeaderPool] : \A i, j \in 1..n : h[i] = h[j] => i = j} :
            n \in 1..Cardinality(HeaderPool)}

ResolverFiles ==
    {[kind |-> "sheet",
      json |-> [headers |-> h, rows |-> << [i \in 1..Len(h) |-> Str("c" \o NatToStr(i))] >>]] :
        h \in HeaderRows}

\* The schema resolver alone.
NextResolve ==
    \/ \E file \in ResolverFiles : ProcessFile(file)
    \/ Reset

SpecResolve == Init /\ [][NextResolve]_vars

\* Ingestion over a dataset already held: the upload section comes back from
\* the help section once the filters leave processedData empty.
NextIngest ==
    \/ \E file \in FilesOf({SheetA}) : ProcessFile(file)
    \/ \E type \in DistinctTruthy(rawData, "kpiType") : ToggleKpiType(type)
    \/ \E value \in ScoreChoices : InputScore(value)
    \/ OpenHelp
    \/ CloseHelp
    \/ Reset

SpecIngest == Init /\ [][NextIngest]_vars

\* Reports under changing thresholds.
NextReport ==
    \/ \E file \in FilesOf({SheetA}) : ProcessFile(file)
    \/ \E value \in ScoreChoices : InputScore(value)
    \/ \E value \in PacingChoices : InputPacing(value)
    \/ \E type \in {"partner", "advertiser", "campaign"} :
          \E target \in {""} \cup DistinctTruthy(rawData, type) :
             \E style \in {"executive", "action", "standard"} :
                GenerateEmail(type, target, style)
    \/ Reset

SpecReport == Init /\ [][NextReport]_vars

\* The lists of a report after sort requests in the campaign view and in the
\* partner view.
NextList ==
    \/ \E file \in ListFiles : ProcessFile(file)
    \/ \E key \in {"calculatedOpportunity", "incrementalBudget"} : HandleTableSort(key)
    \/ \E level \in {"campaign", "partner"} : ChangeViewLevel(level)
    \/ \E style \in {"action", "standard"} : GenerateEmail("partner", "A", style)
    \/ Reset

SpecList == Init /\ [][NextList]_vars

----------------------------------------------------------------------------
(* Properties *)

\* The dashboard is shown: a dataset has been normalized.
Dashboard == screen = "dashboard"

\* The records of the working subset.
Working == {RecordOf(rawData, processedData[i]) : i \in 1..Len(processedData)}

\* The records of the full set.
Full == {rawData[i] : i \in 1..Len(rawData)}

\* r.pacing >= pacingThreshold and r.score > scoreThreshold, for the
\* thresholds on the sliders.
QualifiesNow(r) == JsGeq(r.pacing, OfInt(ui.pacing)) /\ JsGreater(r.score, OfInt(ui.score))

\* r.incrementalBudget * r.daysRemaining
Product(r) == JsMul(r.incrementalBudget, r.daysRemaining)

C3_FullSetZeroUnlessQualifies ==
    Dashboard =>
        \A r \in Full : ~QualifiesNow(r) => r.calculatedOpportunity = Num(0)

\* C3: in every state reached by filter and threshold changes, every record
\* of processedData has calculatedOpportunity 0 unless it qualifies under
\* the current thresholds.
C3_WorkingZeroUnlessQualifies ==
    Dashboard =>
        \A r \in Working : ~QualifiesNow(r) => r.calculatedOpportunity = Num(0)

\* After a filter change and a threshold change: a record that is filtered
\* out keeps a nonzero value though it no longer qualifies, and the working
\* subset holds a record that does not qualify.
C3_Witness ==
    /\ Dashboard
    /\ \E r \in Full \ Working : ~QualifiesNow(r) /\ r.calculatedOpportunity # Num(0)
    /\ \E r \in Working : ~QualifiesNow(r)

\* The number a numeric field holds; a field that was never assigned counts 0.
NumberOf(x) == IF IsNum(x) THEN x.v ELSE 0

\* The lower-case text of a text field; a field that was never assigned is empty.
LowerTextOf(x) == IF IsStr(x) THEN ToLowerCase(x.v) ELSE ""

\* C4 as stated: whatever the pacing cell holds (a percent string, a plain
\* number, a ratio, a negative number, unparsable text), the record's
\* pacing is a number between 0 and 100.
C4_PacingInRange ==
    Dashboard /\ "pacing" \in DOMAIN fieldMap =>
        \A r \in Full : IsNum(r.pacing) /\ r.pacing.v >= 0 /\ r.pacing.v <= 10000

\* A pacing cell that is no number leaves NaN in the record.
C4_Witness ==
    /\ Dashboard /\ "pacing" \in DOMAIN fieldMap
    /\ \E r \in Full : r.pacing = NaN

\* C5: for every normalized record with goalValue > 0, when kpiType contains
\* "cpa" or "cost" (in any case) beatingGoalBool is true exactly when
\* avgKpiValue <= goalValue, and for every other kpiType exactly when
\* avgKpiValue >= goalValue.
C5_BeatingDirection ==
    Dashboard =>
        \A r \in Full :
            NumberOf(r.goalValue) > 0 =>
                IF Includes(LowerTextOf(r.kpiType), "cpa")
                   \/ Includes(LowerTextOf(r.kpiType), "cost")
                THEN r.beatingGoalBool <=> NumberOf(r.avgKpiValue) <= NumberOf(r.goalValue)
                ELSE r.beatingGoalBool <=> NumberOf(r.avgKpiValue) >= NumberOf(r.goalValue)

\* Average 8 against goal 10: the CPA record beats its goal, the CTR record
\* does not.
C5_Witness ==
    /\ Dashboard
    /\ \E r \in Full :
          r.kpiType = Str("CPA") /\ r.avgKpiValue = Num(800) /\ r.goalValue = Num(1000)
          /\ r.beatingGoalBool
    /\ \E r \in Full :
          r.kpiType = Str("CTR") /\ r.avgKpiValue = Num(800) /\ r.goalValue = Num(1000)
          /\ ~r.beatingGoalBool

RECURSIVE SumOf(_)
\* The sum of a sequence of integers.
SumOf(seq) == IF Len(seq) = 0 THEN 0 ELSE seq[1] + SumOf(Tail(seq))

\* The sums a pivot node carries besides its count.
SummedKeys == {"score", "incrementalBudget", "calculatedOpportunity"}

Criteria(u) == <<u.partner, u.advertiser, u.campaign, u.kpiChecked, u.beatingKpi>>

\* A step of applyFilters: the dashboard stays, a filter control changes.
FilterStep == Dashboard /\ Dashboard' /\ Criteria(ui') # Criteria(ui)

\* C7: once applyFilters (the filter, then runCalculation) has run, running
\* it again with rawData, the filter criteria and the thresholds unchanged
\* yields the same processedData (same records, same order, same
\* calculatedOpportunity values) and the same totalOpportunity and
\* qualifyingCount.
C7_FilterIdempotent ==
    [][FilterStep =>
        \E again \in {ApplyFilters(rawData', ui', sortConfig')} :
            /\ again.processedData = processedData'
            /\ again.rawData = rawData'
            /\ again.meta = meta'
            /\ again.tableRows = tableRows']_vars

\* After applyFilters: a proper, non-empty subset with a qualifying record
\* and a positive total.
C7_Witness ==
    /\ Dashboard /\ Criteria(ui) # Criteria(InitialUi)
    /\ ui.beatingKpi
    /\ Len(processedData) > 0 /\ Len(processedData) < Len(rawData)
    /\ meta.qualifyingCount > 0 /\ meta.totalOpportunity.v > 0

\* The criteria of the claim: each of partner, advertiser and campaign is
\* unset or equals the record's field, the record's kpiType is an accepted
\* type, and the record beats its goal when only such records are wanted.
Accepted(r, u) ==
    /\ u.partner = "all" \/ r.partner = Str(u.partner)
    /\ u.advertiser = "all" \/ r.advertiser = Str(u.advertiser)
    /\ u.campaign = "all" \/ r.campaign = Str(u.campaign)
    /\ r.kpiType \in {Str(type) : type \in u.kpiChecked}
    /\ u.beatingKpi => r.beatingGoalBool

\* C9: after applyFilters, a record of rawData is in processedData exactly
\* when it meets all the criteria; with no accepted type processedData is
\* empty.
C9_FilterPredicate ==
    [][FilterStep =>
        /\ \A i \in 1..Len(rawData') :
              (rawData'[i]._id \in Range(processedData')) <=> Accepted(rawData'[i], ui')
        /\ ui'.kpiChecked = {} => processedData' = <<>>]_vars

\* After applyFilters with an advertiser chosen: a record is kept, another is
\* left out.
C9_Witness ==
    /\ Dashboard /\ ui.advertiser # "all" /\ ui.kpiChecked # {}
    /\ Len(processedData) > 0 /\ Len(processedData) < Len(rawData)
    /\ \E r \in Full \ Working : r.advertiser # Str(ui.advertiser)

\* C10: once a dataset is normalized, no filter change, threshold change,
\* sort request, view-level change or report generation changes rawData's
\* length, the order or _id of its records, or any field of a record other
\* than calculatedOpportunity; a sort request, a view-level change and a
\* report generation leave calculatedOpportunity unchanged as well.
C10_Frame ==
    [][Dashboard /\ Dashboard' =>
        /\ Len(rawData') = Len(rawData)
        /\ \A i \in 1..Len(rawData) :
              [rawData'[i] EXCEPT !.calculatedOpportunity = rawData[i].calculatedOpportunity]
                  = rawData[i]
        /\ (sortConfig' # sortConfig \/ ui'.viewLevel # ui.viewLevel
              \/ emailOutput' # emailOutput)
              => rawData' = rawData]_vars

\* A dataset after a filter change, a threshold change, a sort request, a
\* view-level change and a report: a record is filtered out, a record has a
\* nonzero calculatedOpportunity.
C10_Witness ==
    /\ Dashboard
    /\ ui.partner # "all" /\ ui.score # InitialUi.score
    /\ sortConfig.direction = "asc" /\ ui.viewLevel = "pivot"
    /\ emailOutput.kind = "report"
    /\ Len(processedData) < Len(rawData)
    /\ \E r \in Full : r.calculatedOpportunity # Num(0)

\* A sequence back to front.
Reverse(seq) == [i \in 1..Len(seq) |-> seq[Len(seq) + 1 - i]]

\* The value a row of the table is sorted by: text without regard to case, a
\* missing value as 0.
SortKeyOf(a, key) ==
    IF Prop(a, key).t = "undef" THEN Num(0)
    ELSE IF IsStr(a[key]) THEN Str(ToLowerCase(a[key].v))
    ELSE a[key]

\* The sort-key values of the rows of a flat table, in the order shown.
TableKeys(level, raw, rows, key) ==
    [i \in 1..Len(rows) |->
        SortKeyOf(IF level = "campaign" THEN RecordOf(raw, rows[i]) ELSE rows[i], key)]

\* The sort-key values of a list of pivot nodes, in the order shown.
NodeKeys(nodes, key) == [i \in 1..Len(nodes) |-> PivotSortValue(nodes[i], key)]

\* The node of a list with a given name.
Named(nodes, name) == nodes[CHOOSE i \in 1..Len(nodes) : nodes[i].name = name]

\* The sort-key values of the campaigns of an advertiser node.
CampaignKeys(raw, node, key) ==
    [i \in 1..Len(node.children) |-> PivotSortValue(RecordOf(raw, node.children[i]), key)]

\* The order of every list of the pivot tree `after` is the reverse of its
\* order in `before`, by sort-key value.
PivotReversed(raw, before, after, key) ==
    /\ NodeKeys(after, key) = Reverse(NodeKeys(before, key))
    /\ \A p \in 1..Len(before) :
          LET old == before[p]
              new == Named(after, old.name)
          IN  /\ NodeKeys(new.children, key) = Reverse(NodeKeys(old.children, key))
              /\ \A a \in 1..Len(old.children) :
                    CampaignKeys(raw, Named(new.children, old.children[a].name), key)
                        = Reverse(CampaignKeys(raw, old.children[a], key))

\* A click on the header the table is sorted by: the direction toggles.
ToggleStep ==
    /\ Dashboard /\ ui' = ui
    /\ sortConfig'.key = sortConfig.key /\ sortConfig'.direction # sortConfig.direction

\* C8 as stated: for any sort key and any data set, re-selecting the key the
\* table is sorted by shows the rows in the reverse of the previous order, up
\* to the order inside groups of equal sort-key values: the sort-key values
\* read down the table are the previous ones read up (in the pivot, in every
\* list of the tree).
C8_ToggleReverses ==
    [][ToggleStep =>
        IF tableRows.level = "pivot"
        THEN PivotReversed(rawData, tableRows.rows, tableRows'.rows, sortConfig.key)
        ELSE TableKeys(tableRows'.level, rawData', tableRows'.rows, sortConfig.key)
                = Reverse(TableKeys(tableRows.level, rawData, tableRows.rows, sortConfig.key))]_vars

\* The campaign table sorted by pacing, ascending, with a larger pacing above
\* a smaller one.
C8_Witness ==
    /\ Dashboard /\ tableRows.level = "campaign"
    /\ sortConfig = [key |-> "pacing", direction |-> "asc"]
    /\ \E i, j \in 1..Len(tableRows.rows) :
          /\ i < j
          /\ JsGreater(RecordOf(rawData, tableRows.rows[i]).pacing,
                       RecordOf(rawData, tableRows.rows[j]).pacing)

\* Every sort-key value is a number (not NaN) or a non-empty text.
Comparable(keys) ==
    \A i \in 1..Len(keys) : keys[i].t # "nan" /\ keys[i] # Str("")

\* C8 restricted to the flat tables whose sort-key values are all numbers or
\* non-empty texts: re-selecting the key reverses the sort-key values.
C8_ToggleReversesComparable ==
    [][ToggleStep /\ tableRows.level # "pivot"
        /\ Comparable(TableKeys(tableRows.level, rawData, tableRows.rows, sortConfig.key)) =>
        TableKeys(tableRows'.level, rawData', tableRows'.rows, sortConfig.key)
            = Reverse(TableKeys(tableRows.level, rawData, tableRows.rows, sortConfig.key))]_vars

\* The sum of calculatedOpportunity over a set of records given as a
\* sequence: NaN as soon as one of them is no number.
OpportunitySum(records) ==
    IF \E i \in 1..Len(records) : ~IsNum(records[i].calculatedOpportunity)
    THEN NaN
    ELSE Num(SumOf([i \in 1..Len(records) |-> records[i].calculatedOpportunity.v]))

\* C11: in every state reached after normalization by filter, threshold,
\* sort and view-level operations, meta.totalOpportunity is the sum of
\* calculatedOpportunity over the current processedData, and
\* meta.qualifyingCount is the number of records of the current
\* processedData with pacing >= pacingThreshold and score > scoreThreshold
\* under the thresholds on the sliders.
C11_TotalsMatchWorkingSet ==
    Dashboard =>
        /\ meta.totalOpportunity = OpportunitySum(Records(rawData, processedData))
        /\ meta.qualifyingCount =
              Cardinality({i \in 1..Len(processedData) :
                              QualifiesNow(RecordOf(rawData, processedData[i]))})

\* After a filter change, a threshold change, a sort request and a view
\* change: a proper subset with a record that qualifies and a record that
\* does not.
C11_Witness ==
    /\ Dashboard
    /\ Criteria(ui) # Criteria(InitialUi) /\ ui.score # InitialUi.score
    /\ sortConfig.direction = "asc" /\ ui.viewLevel # "campaign"
    /\ Len(processedData) < Len(rawData)
    /\ meta.qualifyingCount > 0 /\ IsNum(meta.totalOpportunity)
    /\ \E r \in Working : ~QualifiesNow(r)

\* C12 as stated: the result depends on rawData and the current settings
\* only.  A sequence of operations that led to a state, and the same sequence
\* followed by two clicks on the beating-goal checkbox (a filter change and
\* its undo), end with the same filter criteria, thresholds, sort spec and
\* view level; the second ends in applyFilters() under those settings.  So
\* processedData (contents and order) and the rows shown are at every moment
\* what applyFilters() derives from rawData under the current settings.
C12_ResultOfSettingsOnly ==
    Dashboard =>
        \E again \in {ApplyFilters(rawData, ui, sortConfig)} :
            /\ again.processedData = processedData
            /\ again.tableRows = tableRows

\* Under the settings a dataset has right after normalization (the default
\* sort spec, the campaign view, no filter or threshold touched), after sort
\* requests: every opportunity is a number, and processedData is in another
\* order than right after normalization.
C12_Witness ==
    /\ Dashboard
    /\ sortConfig = [key |-> "calculatedOpportunity", direction |-> "desc"]
    /\ ui.viewLevel = "campaign" /\ ui.score = InitialUi.score /\ ~ui.beatingKpi
    /\ Len(processedData) = Len(rawData)
    /\ \A r \in Full : IsNum(r.calculatedOpportunity)
    /\ \E fresh \in {RenderTable(rawData, IdsOf(rawData), "campaign", sortConfig)} :
          fresh.processedData # processedData

\* A reader.onload that ended in an alert: the upload section stays.
FailedAttempt == screen = "upload" /\ screen' = "upload" /\ alerted' # ""

\* C13: when an ingestion attempt ends in the error outcome or in the
\* empty-dataset outcome, rawData, processedData, fieldMap and the totals in
\* meta equal their values from before the attempt.
C13_FailureKeepsState ==
    [][FailedAttempt =>
        /\ rawData' = rawData
        /\ processedData' = processedData
        /\ fieldMap' = fieldMap
        /\ meta' = meta]_vars

\* After an attempt on an empty file while a dataset was held: the dataset
\* and its field map are still there.
C13_Witness ==
    /\ screen = "upload" /\ alerted = "empty"
    /\ Len(rawData) > 0 /\ DOMAIN fieldMap # {}

\* The fields the claim calls numeric, and the text fields.
NumericFields == {"score", "incrementalBudget", "daysRemaining", "goalValue", "avgKpiValue",
                  "pacing"}
TextFields == {"partner", "advertiser", "campaign", "decisioned", "beatingGoal", "kpiType"}

\* C14 as stated: after normalization every numeric field of every record is
\* a number (not undefined, not a string, not NaN), 0 when its column is
\* unmapped; every text field is a string, "" when its column is unmapped;
\* and the pass produces a numeric calculatedOpportunity and totalOpportunity.
C14_FieldsDefaulted ==
    Dashboard =>
        /\ \A r \in Full :
              /\ \A key \in NumericFields :
                    IsNum(r[key]) /\ (key \notin DOMAIN fieldMap => r[key] = Num(0))
              /\ \A key \in TextFields :
                    IsStr(r[key]) /\ (key \notin DOMAIN fieldMap => r[key] = Str(""))
              /\ IsNum(r.calculatedOpportunity)
        /\ IsNum(meta.totalOpportunity)

\* A sheet without a days column and without an advertiser column: the
\* fields are undefined, the opportunity of a qualifying record and the
\* total are NaN.
C14_Witness ==
    /\ Dashboard
    /\ "daysRemaining" \notin DOMAIN fieldMap /\ "advertiser" \notin DOMAIN fieldMap
    /\ \E r \in Working :
          /\ r.daysRemaining = Undef /\ r.advertiser = Undef
          /\ QualifiesNow(r) /\ r.calculatedOpportunity = NaN
    /\ meta.totalOpportunity = NaN

\* The records of processedData whose field `type` is the target, in order.
ScopeOf(type, target) ==
    LET InScope(r) == r[type] = Str(target)
    IN  SelectSeq(Records(rawData, processedData), InScope)

\* The scope records with calculatedOpportunity > 0, in order.
PositiveOf(scope) ==
    LET Positive(r) == IsNum(r.calculatedOpportunity) /\ r.calculatedOpportunity.v > 0
    IN  SelectSeq(scope, Positive)

\* A step of generateEmail() for a target: the output is written anew.
ReportStep ==
    /\ Dashboard /\ emailOutput' # emailOutput
    /\ emailOutput'.kind \in {"noOpportunities", "report"}

\* The scope type of a written output: the field of processedData that holds
\* its target (a target names a partner, an advertiser or a campaign here,
\* never two of them).
TypeOf(target) ==
    CHOOSE type \in {"partner", "advertiser", "campaign"} :
        target \in DistinctTruthy(rawData, type)

\* C15 as stated: a report for a scope takes as opportunities exactly the
\* scope records with calculatedOpportunity > 0; when there is none it
\* writes the no-qualifying-opportunities message, and that message names
\* the current score threshold and the current pacing threshold; otherwise
\* the total of the report is the sum of calculatedOpportunity over the
\* opportunities.
C15_ReportOfScope ==
    [][ReportStep =>
        \E opportunities \in {PositiveOf(ScopeOf(TypeOf(emailOutput'.target),
                                                 emailOutput'.target))} :
            IF Len(opportunities) = 0
            THEN /\ emailOutput'.kind = "noOpportunities"
                 /\ Includes(emailOutput'.text, NatToStr(ui.score))
                 /\ Includes(emailOutput'.text, NatToStr(ui.pacing))
            ELSE /\ emailOutput'.kind = "report"
                 /\ emailOutput'.count = Len(opportunities)
                 /\ emailOutput'.totalOpp = OpportunitySum(opportunities)]_vars

\* The message for a partner whose only campaign paces at 80 under the
\* pacing threshold 99, with the score threshold at 120.
C15_Witness ==
    /\ Dashboard /\ ui.pacing = 99 /\ ui.score = 120
    /\ emailOutput.kind = "noOpportunities" /\ emailOutput.target = "B"
    /\ emailOutput.scoreThreshold = 120
    /\ \E r \in Working : r.partner = Str("B") /\ r.pacing = OfInt(80)

\* a is not after b under the sort spec cfg, for a numeric sort key.
NotAfter(a, b, cfg) ==
    IF cfg.direction = "asc"
    THEN NumberOf(a[cfg.key]) <= NumberOf(b[cfg.key])
    ELSE NumberOf(a[cfg.key]) >= NumberOf(b[cfg.key])

\* The limit the claim gives each style.
ClaimedLimit(style) == IF style = "action" THEN 5 ELSE 10

\* The listed identities are the first of the opportunities in the order of
\* the sort spec cfg: they are in that order, and no opportunity left out
\* comes before a listed one.
FirstInSortOrder(listed, opportunities, cfg) ==
    /\ \A i, j \in 1..Len(listed) :
          i < j => NotAfter(RecordOf(rawData, listed[i]), RecordOf(rawData, listed[j]), cfg)
    /\ \A i \in 1..Len(listed) : \A k \in 1..Len(opportunities) :
          opportunities[k]._id \notin Range(listed)
             => NotAfter(RecordOf(rawData, listed[i]), opportunities[k], cfg)

\* A step of generateEmail() that writes an action or a standard report.
ListStep ==
    /\ ReportStep /\ emailOutput'.kind = "report"
    /\ emailOutput'.style \in {"action", "standard"}

\* C16 as stated: with n opportunities in scope the action report lists
\* exactly the first min(5, n) and the standard report the first min(10, n),
\* first in the order of the current sort spec, whichever view was active
\* when the sort was requested; the suffix appears exactly when n exceeds
\* the limit, with N = n - 5 and N = n - 10.
C16_ListedFirstInSortOrder ==
    [][ListStep =>
        \E opportunities \in {PositiveOf(ScopeOf("partner", emailOutput'.target))} :
        \E limit \in {ClaimedLimit(emailOutput'.style)} :
            /\ Len(emailOutput'.listed) =
                  (IF Len(opportunities) < limit THEN Len(opportunities) ELSE limit)
            /\ Range(emailOutput'.listed) \subseteq {opportunities[k]._id : k \in 1..Len(opportunities)}
            /\ emailOutput'.others =
                  (IF Len(opportunities) > limit THEN Len(opportunities) - limit ELSE 0)
            /\ FirstInSortOrder(emailOutput'.listed, opportunities, sortConfig)]_vars

\* An action report that stops short, written in the partner view after a
\* sort request by budget made in that view.
C16_Witness ==
    /\ Dashboard /\ ui.viewLevel = "partner" /\ sortConfig.key = "incrementalBudget"
    /\ emailOutput.kind = "report" /\ emailOutput.style = "action"
    /\ Len(emailOutput.listed) = 5 /\ emailOutput.others = MaxListRows - 5

\* C16 for reports written in the campaign view: the counts, the suffix and
\* the order of the current sort spec.
C16_ListedFirstInCampaignView ==
    [][ListStep /\ ui.viewLevel = "campaign" =>
        \E opportunities \in {PositiveOf(ScopeOf("partner", emailOutput'.target))} :
        \E limit \in {ClaimedLimit(emailOutput'.style)} :
            /\ Len(emailOutput'.listed) =
                  (IF Len(opportunities) < limit THEN Len(opportunities) ELSE limit)
            /\ Range(emailOutput'.listed) \subseteq {opportunities[k]._id : k \in 1..Len(opportunities)}
            /\ emailOutput'.others =
                  (IF Len(opportunities) > limit THEN Len(opportunities) - limit ELSE 0)
            /\ FirstInSortOrder(emailOutput'.listed, opportunities, sortConfig)]_vars

\* A sort request: the sort spec changes while the controls stay.
SortStep == Dashboard /\ Dashboard' /\ ui' = ui /\ sortConfig' # sortConfig

\* C17: the sort spec starts as {calculatedOpportunity, desc}; a sort request
\* on the selected key flips the direction between asc and desc and leaves
\* the key, and a sort request on another key sets that key and the
\* direction desc, whatever the direction was.
C17_SortSpecToggle ==
    /\ sortConfig = [key |-> "calculatedOpportunity", direction |-> "desc"]
    /\ [][SortStep =>
            /\ sortConfig.direction \in {"asc", "desc"}
            /\ IF sortConfig'.key = sortConfig.key
               THEN sortConfig'.direction = (IF sortConfig.direction = "asc" THEN "desc" ELSE "asc")
               ELSE sortConfig'.direction = "desc"]_vars

\* After a request on another key and a second request on it: that key,
\* ascending.
C17_Witness ==
    /\ Dashboard
    /\ sortConfig = [key |-> "score", direction |-> "asc"]

\* The group of a record under the dimension d: its value, "Unknown" when it
\* is missing or empty.
GroupOf(r, d) == IF IsStr(r[d]) /\ r[d].v # "" THEN r[d].v ELSE "Unknown"

\* The records of processedData in the group g of d, in order.
MembersOf(g, d) ==
    LET InGroup(r) == GroupOf(r, d) = g
    IN  SelectSeq(Records(rawData, processedData), InGroup)

\* The sum of a field over records: NaN as soon as one value is no number.
FieldSum(records, key) ==
    IF \E i \in 1..Len(records) : ~IsNum(records[i][key])
    THEN NaN
    ELSE Num(SumOf([i \in 1..Len(records) |-> records[i][key].v]))

\* a is x rounded to the nearest integer (halves up), for x = total / count
\* with total in hundredths.
IsRounded(a, total, count) ==
    /\ 200 * count * a <= 2 * total + 100 * count
    /\ 2 * total + 100 * count < 200 * count * (a + 1)

\* The summary row of a group is what the claim says.
RowMatches(row, d) ==
    \E members \in {MembersOf(row.name.v, d)} :
        /\ row.count = OfInt(Len(members))
        /\ row.calculatedOpportunity = FieldSum(members, "calculatedOpportunity")
        /\ row.incrementalBudget = FieldSum(members, "incrementalBudget")
        /\ \E total \in {FieldSum(members, "score")} :
              /\ IsNum(total) /\ IsNum(row.avgScore) /\ row.avgScore.v % 100 = 0
              /\ IsRounded(row.avgScore.v \div 100, total.v, Len(members))

\* The flat summary is shown.
GroupView == Dashboard /\ tableRows.level \in {"advertiser", "partner"}

\* One row per distinct group of processedData.
OneRowPerGroup(rows, d) ==
    /\ {rows[i].name : i \in 1..Len(rows)} = {Str(GroupOf(r, d)) : r \in Working}
    /\ \A i, j \in 1..Len(rows) : rows[i].name = rows[j].name => i = j

\* C18 as stated: in the flat group-by over advertiser or partner the
\* summary has exactly one row per distinct value of the dimension in
\* processedData, a missing or empty value under "Unknown"; each row's count
\* is the number of its records, its calculatedOpportunity and
\* incrementalBudget are the sums over its records, its avgScore is the
\* rounded average score; the counts add up to the size of processedData and
\* the opportunities to totalOpportunity.
C18_GroupSummary ==
    GroupView =>
        /\ OneRowPerGroup(tableRows.rows, tableRows.level)
        /\ \A i \in 1..Len(tableRows.rows) : RowMatches(tableRows.rows[i], tableRows.level)
        /\ FieldSum(tableRows.rows, "count") = OfInt(Len(processedData))
        /\ FieldSum(tableRows.rows, "calculatedOpportunity") = meta.totalOpportunity

\* The advertiser summary of a sheet without an advertiser column and
\* without a days column: one row "Unknown" with a numeric opportunity,
\* under a total that is NaN.
C18_Witness ==
    /\ GroupView /\ tableRows.level = "advertiser"
    /\ Len(tableRows.rows) = 1 /\ tableRows.rows[1].name = Str("Unknown")
    /\ tableRows.rows[1].count.v >= 200
    /\ IsNum(tableRows.rows[1].calculatedOpportunity)
    /\ meta.totalOpportunity = NaN

\* C18 for the datasets whose opportunities are all numbers.
C18_GroupSummaryNumeric ==
    GroupView /\ (\A r \in Working : IsNum(r.calculatedOpportunity)) =>
        /\ OneRowPerGroup(tableRows.rows, tableRows.level)
        /\ \A i \in 1..Len(tableRows.rows) : RowMatches(tableRows.rows[i], tableRows.level)
        /\ FieldSum(tableRows.rows, "count") = OfInt(Len(processedData))
        /\ FieldSum(tableRows.rows, "calculatedOpportunity") = meta.totalOpportunity

\* The header equals a synonym once trimmed, case ignored.
EqualsSynonym(h, terms) ==
    \E n \in 1..Len(terms) : ToLowerCase(Trim(h)) = ToLowerCase(terms[n])

\* The positions of the headers that equal a synonym.
Candidates(headers, terms) == {i \in 1..Len(headers) : EqualsSynonym(headers[i], terms)}

\* fm maps the entry's key as claimed for these headers.
ResolvedAsClaimed(fm, headers, entry) ==
    IF Candidates(headers, entry.terms) = {}
    THEN entry.key \notin DOMAIN fm
    ELSE /\ entry.key \in DOMAIN fm
         /\ \E i \in Candidates(headers, entry.terms) :
              /\ fm[entry.key] = headers[i]
              /\ \A j \in Candidates(headers, entry.terms) : i <= j

Affirmative(beatingGoal) ==
    IsStr(beatingGoal) /\ ToLowerCase(beatingGoal.v) \in {"true", "yes", "1"}

\* C20: for every normalized record whose goalValue is 0, beatingGoalBool is
\* true exactly when the text of its beatingGoal field, lower-cased, is
\* "true", "yes" or "1", and false otherwise, a missing beatingGoal column
\* included, whatever avgKpiValue and kpiType are.
C20_FallbackToSheetFlag ==
    \A i \in 1..Len(rawData) :
        rawData[i].goalValue = Num(0) =>
            rawData[i].beatingGoalBool = Affirmative(rawData[i].beatingGoal)

\* A CPA record with goal 0 and an average above it, flagged "Yes" in the
\* sheet: the flag is taken from the sheet.
C20_Witness ==
    /\ Dashboard /\ Len(rawData) = 1
    /\ rawData[1].goalValue = Num(0)
    /\ rawData[1].kpiType = Str("CPA")
    /\ rawData[1].avgKpiValue = Num(1200)
    /\ rawData[1].beatingGoal = Str("Yes")
    /\ rawData[1].beatingGoalBool = TRUE

\* The same goal without a beatingGoal column: the flag is false.
C20_MissingColumn ==
    \A i \in 1..Len(rawData) :
        rawData[i].goalValue = Num(0) /\ rawData[i].beatingGoal = Undef =>
            rawData[i].beatingGoalBool = FALSE

\* C21 as stated: in every state reachable after normalization, the state
\* right after ingestion included, processedData is exactly the set of the
\* records of rawData that meet the filter criteria shown on the controls
\* (the partner, advertiser and campaign selections, the checked KPI types,
\* the beating-goal flag).
C21_WorkingSetMeetsShownFilters ==
    Dashboard =>
        \A i \in 1..Len(rawData) :
            (rawData[i]._id \in Range(processedData)) <=> Accepted(rawData[i], ui)

\* Right after ingestion: every record is in processedData, one of them with
\* a KPI type whose box is not checked.
C21_Witness ==
    /\ Dashboard /\ Len(processedData) = Len(rawData)
    /\ ui.partner = "all" /\ ui.advertiser = "all" /\ ui.campaign = "all" /\ ~ui.beatingKpi
    /\ \E r \in Working : r.kpiType \notin {Str(type) : type \in ui.kpiChecked}

\* The positions of processedData whose record a report would list:
\* calculatedOpportunity > 0.
ReportedPositions ==
    {i \in 1..Len(processedData) :
        JsGreater(RecordOf(rawData, processedData[i]).calculatedOpportunity, Num(0))}

\* C22 as stated: after any pass of runCalculation, the number of records of
\* processedData that a report treats as opportunities
\* (calculatedOpportunity > 0) equals meta.qualifyingCount.
C22_CountsAgree ==
    Dashboard => Cardinality(ReportedPositions) = meta.qualifyingCount

\* Two records counted as qualifying, one of them with the numeric
\* opportunity 0, so that a report lists one.
C22_Witness ==
    /\ Dashboard /\ meta.qualifyingCount = 2
    /\ Cardinality(ReportedPositions) = 1
    /\ \A r \in Working : IsNum(r.calculatedOpportunity) /\ IsNum(r.daysRemaining)
    /\ \E r \in Working : QualifiesNow(r) /\ r.daysRemaining = Num(0)

\* The counts for the datasets whose qualifying records all have a positive
\* product.
C22_CountsAgreePositive ==
    Dashboard /\ (\A r \in Working : QualifiesNow(r) => JsGreater(Product(r), Num(0))) =>
        Cardinality(ReportedPositions) = meta.qualifyingCount

\* The advertiser summary is shown.
AdvertiserView == Dashboard /\ tableRows.level = "advertiser"

\* The partner shown on the row is the partner of each record of its group.
RowOfOnePartner(row) ==
    \A r \in Working : GroupOf(r, "advertiser") = row.name.v => r.partner = row.partner

\* C23 as stated: in the flat advertiser group-by, the partner shown on each
\* summary row is the partner of every record aggregated into the row;
\* records with the same advertiser and different partners are never merged
\* into one row.
C23_AdvertiserRowOfOnePartner ==
    AdvertiserView =>
        \A i \in 1..Len(tableRows.rows) : RowOfOnePartner(tableRows.rows[i])

\* The row of advertiser Y shows partner A and counts two records, one of
\* them of partner B.
C23_Witness ==
    /\ AdvertiserView
    /\ \E i \in 1..Len(tableRows.rows) :
          /\ tableRows.rows[i].name = Str("Y")
          /\ tableRows.rows[i].partner = Str("A")
          /\ tableRows.rows[i].count = OfInt(2)
          /\ \E r \in Working : r.advertiser = Str("Y") /\ r.partner = Str("B")

\* The rows of the advertisers that run under one partner only.
C23_SinglePartnerRows ==
    AdvertiserView =>
        \A i \in 1..Len(tableRows.rows) :
            (\A r, s \in Working :
                GroupOf(r, "advertiser") = tableRows.rows[i].name.v
                /\ GroupOf(s, "advertiser") = tableRows.rows[i].name.v => r.partner = s.partner)
            => RowOfOnePartner(tableRows.rows[i])

====
